---- MODULE Spec2Model ----
(***************************************************************************)
(* State-machine model of the QR attendance capture flow of the frontend:  *)
(*   - the webcam scanner      (components/scanner/QRScanner.jsx, QRScanner)*)
(*   - the image-file scanner  (same file, DigitalQRScanner)               *)
(*   - the react-qr-reader scanner (components/QRScanner.jsx)              *)
(*   - the useQRScanner hook   (hooks/useQRScanner)                        *)
(* and of the api service they submit through (services/api.js).           *)
(*                                                                         *)
(* One component is mounted per behaviour (variable comp, chosen by Init). *)
(* Every action is one handler run to completion on the single-threaded    *)
(* event loop: a timer callback, a promise continuation, a DOM callback or *)
(* an operator click.  The browser, the camera, the operator, the remote   *)
(* server and the host page are the environment.                           *)
(***************************************************************************)
EXTENDS Integers, Sequences, FiniteSets, Bags, TLC

\* ---------------------------------------------------------------- bounds
MaxTimers == 2      \* interval timers that may be armed at the same time
MaxOutstanding == 2 \* callbacks of a scanner component that may be outstanding
                    \* at once: image loads, unresolved markAttendance calls,
                    \* cooldown timeouts and permission probes
MaxStarts == 2      \* getUserMedia promises of startScanner that may be pending
MaxStreams == 2     \* camera streams that may be live at the same time
MaxFrames == 2      \* requestAnimationFrame callbacks that may be scheduled

\* ------------------------------------------------------- JavaScript values
Null == "<null>"
Undefined == "<undefined>"

\* JavaScript truthiness of a string-or-absent value
Truthy(v) == v \notin {Null, Undefined, ""}

\* a || b
OrElse(a, b) == IF Truthy(a) THEN a ELSE b

\* ------------------------------------------------------ decoded QR texts
NoSymbol == "<none>"
TxtGarbage == "hello world"
TxtBare == "S1"
TxtNull == "null"
TxtNumber == "42"
TxtEmptyObj == "{}"
TxtEmptyIndex == "{\"indexNumber\":\"\"}"
TxtIndexOnly == "{\"indexNumber\":\"S1\"}"
TxtFull == "{\"indexNumber\":\"S1\",\"name\":\"Ann\"}"
TxtNameOnly == "{\"name\":\"Ann\"}"
TxtUrl == "http://x/?indexNumber=S1&name=Ann"
TxtUrlEmpty == "http://x/?indexNumber="
TxtQuery == "indexNumber=S1"

Texts ==
  {TxtGarbage, TxtBare, TxtNull, TxtNumber, TxtEmptyObj, TxtEmptyIndex,
   TxtIndexOnly, TxtFull, TxtNameOnly, TxtUrl, TxtUrlEmpty, TxtQuery}

\* A parsed payload: kind is the JavaScript type of the value, the fields
\* are the properties the scanners read (Undefined when absent).
Obj(i, n, r) == [kind |-> "object", indexNumber |-> i, name |-> n, rawData |-> r]
JsNull == [kind |-> "null", indexNumber |-> Undefined, name |-> Undefined, rawData |-> Undefined]
JsNumber == [kind |-> "number", indexNumber |-> Undefined, name |-> Undefined, rawData |-> Undefined]
SyntaxError == [kind |-> "SyntaxError", indexNumber |-> Undefined, name |-> Undefined, rawData |-> Undefined]

\* JSON.parse on the decoded texts
JSONParse(text) ==
  CASE text = TxtNull -> JsNull
    [] text = TxtNumber -> JsNumber
    [] text = TxtEmptyObj -> Obj(Undefined, Undefined, Undefined)
    [] text = TxtEmptyIndex -> Obj("", Undefined, Undefined)
    [] text = TxtIndexOnly -> Obj("S1", Undefined, Undefined)
    [] text = TxtFull -> Obj("S1", "Ann", Undefined)
    [] text = TxtNameOnly -> Obj(Undefined, "Ann", Undefined)
    [] OTHER -> SyntaxError

\* ----------------------------------------------------- user-facing texts
MsgNoCameras == "No cameras found on your device"
MsgDetectFailed == "Failed to detect cameras: "
MsgDenied == "Camera access denied. Please allow camera access to scan QR codes."
MsgWebcam == "Error accessing camera: "
MsgBadFormat == "Invalid QR code format. Please scan a valid QR code."
MsgMissingInfo == "Invalid QR code data. Missing required information."
MsgNotFound == "Student not found in the database"
MsgAlreadyMarked == "Attendance already marked for this student today"
MsgFailedToMark == "Failed to mark attendance"
MsgBody == "message sent by the server"
MsgInvalidResponse == "Invalid response from server"
MsgServerDown == "Server is not responding. Please check if the server is running."
MsgConnFailed == "Server connection failed"

\* ------------------------------------------------------------- api layer
\* What the remote side does with one api.post: the health probe of the
\* request interceptor fails, no response arrives (network error or the
\* 15 s timeout), or a response with an HTTP status and a body arrives.
Statuses == {200, 400, 404, 409, 422, 500}
Replies ==
  [type : {"healthDown", "noResponse"}, status : {0}, data : {FALSE},
   attendanceStatus : {Undefined}, message : {Undefined}]
  \cup
  [type : {"response"}, status : {200}, data : BOOLEAN,
   attendanceStatus : {Undefined, "entered"}, message : {Undefined, MsgBody}]
  \cup
  [type : {"response"}, status : Statuses \ {200}, data : {TRUE},
   attendanceStatus : {Undefined}, message : {Undefined, "", MsgBody}]

\* response.data.status: the bodies of the attendance endpoint (success:
\* studentInfo, attendanceStatus, message; failure: message) have no
\* property named status.
DataStatus(reply) == Undefined

\* Variant of the axios instance created without a timeout (axios then
\* waits for a response without limit)
ApiConfig_NoTimeout == [timeout |-> 0, withCredentials |-> TRUE]

\* The configuration of the axios instance every service call goes through
ApiConfig == [timeout |-> 15000, withCredentials |-> TRUE]

\* The configuration of the health probe of checkServerConnectivity
HealthConfig == [timeout |-> 5000, validateStatus |-> FALSE]

\* An Error object that carries no .response
PlainError(message) ==
  [ok |-> FALSE, hasResponse |-> FALSE, status |-> 0, data |-> FALSE,
   attendanceStatus |-> Undefined, dataStatus |-> Undefined,
   bodyMessage |-> Undefined,
   message |-> message]

\* The rejected handler of the response interceptor, which every rejection
\* of the request chain passes through (the one thrown by the request
\* interceptor included): an error without a response becomes the
\* connection-failed error, any other error is passed on.
ResponseRejected(err) ==
  IF ~err.hasResponse \/ err.status = 0 THEN PlainError(MsgConnFailed) ELSE err

\* The settled promise of qrCodeService.markAttendance, after the request
\* and response interceptors: fulfilled with a response, or rejected with
\* an error that may or may not carry .response.
ApiSettle(reply) ==
  IF reply.type = "healthDown"
    THEN ResponseRejected(PlainError(MsgServerDown))
  ELSE IF reply.type = "noResponse" \/ reply.status = 0
    THEN ResponseRejected(PlainError("timeout of 15000ms exceeded"))
  ELSE IF reply.status = 200
    THEN [ok |-> TRUE, hasResponse |-> TRUE, status |-> 200, data |-> reply.data,
          attendanceStatus |-> reply.attendanceStatus, dataStatus |-> DataStatus(reply),
          bodyMessage |-> reply.message,
          message |-> Undefined]
  ELSE ResponseRejected(
         [ok |-> FALSE, hasResponse |-> TRUE, status |-> reply.status, data |-> reply.data,
          attendanceStatus |-> Undefined, dataStatus |-> DataStatus(reply),
          bodyMessage |-> reply.message,
          message |-> "Request failed with status code " \o ToString(reply.status)])

\* ----------------------------------------------------------------- state
VARIABLES
  comp,              \* which component this behaviour mounts
  mounted,           \* the component is mounted
  scanning,          \* useState scanning
  loading,           \* useState loading
  error,             \* useState error
  cameraPermission,  \* useState cameraPermission: "null", "true", "false"
  availableCameras,  \* number of video inputs found by getAvailableCameras
  intervalRef,       \* intervalRef.current: a timer id, or 0 for null
  timers,            \* ids of the armed setInterval timers
  pending,           \* number of image.onload callbacks not yet run
  inflight,          \* bag of unresolved qrCodeService.markAttendance calls
  cooldowns,         \* number of pending 3-second setTimeout callbacks
  permChecks,        \* pending getUserMedia promises of checkCameraPermission
  enumPending,       \* the enumerateDevices promise of the mount effect is pending
  webcamMedia,       \* stream of <Webcam/> or <QrReader/>: "none", "pending", "live"
  closure,           \* how the host page's callbacks age the scanner's closures
  streams,           \* ids of the getUserMedia streams of this code with live tracks
  gumPending,        \* pending getUserMedia promises of startScanner / the mount probe
  scannedData,       \* useState scannedData: Null or the stored value
  streamRef,         \* useQRScanner streamRef.current: a stream id, or 0 for null
  animationRef,      \* useQRScanner animationRef.current: a frame-request id, or 0
  rafs,              \* ids of the scheduled requestAnimationFrame callbacks
  metaPending,       \* video.onloadedmetadata is set and the event has not fired
  released,          \* stopScanner has run and startScanner was not called since
  apiError,          \* DigitalQRScanner useState apiError
  previewUrl,        \* DigitalQRScanner has a previewUrl
  decodes,           \* DigitalQRScanner: bag of FileReader/Image loads not yet finished
  totalPages,        \* Pagination prop totalPages
  currentPage,       \* Pagination prop currentPage
  submits,           \* useFormSubmit: unresolved submitFn calls of handleSubmit
  storage,           \* keys present in localStorage and sessionStorage
  logouts,           \* bag of unresolved authService.logout calls, by phase of api.post
  auth,              \* what useAuth() returns: loading, isAuthenticated, isAdmin
  adminOnly,         \* ProtectedRoute prop adminOnly
  rendered,          \* what ProtectedRoute returned
  pages,             \* what Pagination rendered: the list of getPageNumbers, <<>> for null
  fx                 \* what the last handler did (observable effects)

vars ==
  <<comp, mounted, scanning, loading, error, cameraPermission, availableCameras,
    intervalRef, timers, pending, inflight, cooldowns, permChecks, enumPending,
    webcamMedia, closure, streams, gumPending, scannedData, streamRef, animationRef,
    rafs, metaPending, released, apiError, previewUrl, decodes,
    totalPages, currentPage, pages, submits, storage, logouts,
    auth, adminOnly, rendered, fx>>

\* State of the scanner components, but for loading and error
scannerState ==
  <<mounted, scanning, cameraPermission, inflight, webcamMedia, streams, gumPending,
    scannedData, availableCameras, intervalRef, timers, pending, cooldowns, permChecks,
    enumPending, closure, streamRef, animationRef, rafs, metaPending, released,
    apiError, previewUrl, decodes>>

\* State only useFormSubmit has (it has its own loading and error)
formOnly == <<submits>>

\* State only the auth service has
authOnly == <<storage, logouts>>

\* State only ProtectedRoute has
routeOnly == <<auth, adminOnly, rendered>>

\* State of Pagination
paginationOnly == <<totalPages, currentPage, pages>>

\* State of the parts of the frontend that are no scanner
elsewhere == <<paginationOnly, formOnly, authOnly, routeOnly>>

\* State of the other components, which a webcam-scanner handler leaves alone
notWebcam ==
  <<streams, gumPending, scannedData, streamRef, animationRef, rafs, metaPending,
    released, apiError, previewUrl, decodes, elsewhere>>

\* State only the webcam scanner has
webcamOnly ==
  <<availableCameras, intervalRef, timers, pending, cooldowns, permChecks,
    enumPending, closure>>

\* State only the useQRScanner hook has
hookOnly == <<streamRef, animationRef, rafs, metaPending, released>>

\* State only DigitalQRScanner has
digitalOnly == <<apiError, previewUrl, decodes>>

\* ------------------------------------------------------ observable effects
\* fx records what one handler did beyond the state it left behind: which
\* handler ran, on what input, how often the host callbacks were invoked,
\* how many markAttendance and getUserMedia calls it issued, whether it
\* called stopScanning or armed an interval, and for a settled submission
\* the message of the response body and the status of the outcome.  For
\* handleSubmit of useFormSubmit: how often onSuccess and onError were
\* called, with what argument, and what the call threw.
Fx(act, input) ==
  [act |-> act, input |-> input, body |-> Undefined, onScanError |-> 0,
   onScanSuccess |-> 0,
   issued |-> 0, getUserMedia |-> 0, stopped |-> FALSE, armed |-> 0,
   outcomeStatus |-> Undefined, reported |-> Undefined,
   onSuccess |-> 0, onError |-> 0, arg |-> Undefined, thrown |-> Undefined]

\* A useState setter: React drops updates of an unmounted component.
SetState(cur, new) == IF mounted THEN new ELSE cur

\* Closures.  captureAndProcessFrame is memoized on [stopScanning,
\* onScanError] and startScanning on [cameraPermission], so a running
\* interval calls the handleQRCodeDetected, and through it the
\* startScanning, of the render in which its captureAndProcessFrame was
\* created.  Which render that is depends on the host page:
\*   "stale"  the host passes the same onScanError on every render, so
\*            captureAndProcessFrame is the one of the first render and the
\*            startScanning it reaches sees cameraPermission === null;
\*   "fresh"  the host passes a new onScanError with every commit, so
\*            captureAndProcessFrame and startScanning are re-created
\*            together and the startScanning reached sees the
\*            cameraPermission of the render that armed the interval (true).
\* The host's policy is fixed for a behaviour; Init chooses it.
Closures == {"stale", "fresh"}

\* The cameraPermission seen by the startScanning that a cooldown calls
ClosurePermission == IF closure = "fresh" THEN "true" ELSE "null"

\* Callbacks of the mounted component that have been set up and not run
Outstanding ==
  pending + BagCardinality(inflight) + cooldowns + permChecks + BagCardinality(decodes)

FreeTimerIds == (1..MaxTimers) \ (timers \cup {intervalRef})

WebcamRendered == mounted /\ cameraPermission # "false"

\* ======================================================================
\*  Webcam scanner: components/scanner/QRScanner.jsx, QRScanner
\* ======================================================================

\* What a sampling tick can find in the video frame
Frames == {NoSymbol, TxtGarbage, TxtNull, TxtNameOnly, TxtEmptyIndex, TxtIndexOnly}
NotReady == "<no screenshot>"

\* Variant of processImageData that reports a frame without a symbol as an
\* invalid QR code.
ProcessImageData_NoSymbolIsError(frame) ==
  LET qrData == JSONParse(frame) IN
    IF frame = NoSymbol \/ qrData.kind = "SyntaxError"
      THEN [found |-> FALSE, qrData |-> JsNull, err |-> MsgBadFormat]
    ELSE IF qrData.kind = "null" \/ ~Truthy(qrData.indexNumber)
      THEN [found |-> FALSE, qrData |-> JsNull, err |-> MsgMissingInfo]
    ELSE [found |-> TRUE, qrData |-> qrData, err |-> Null]

\* Variant of processImageData that returns every parsed value without
\* checking indexNumber.
ProcessImageData_NoValidation(frame) ==
  IF frame = NoSymbol
    THEN [found |-> FALSE, qrData |-> JsNull, err |-> Null]
  ELSE LET qrData == JSONParse(frame) IN
    IF qrData.kind = "SyntaxError"
      THEN [found |-> FALSE, qrData |-> JsNull, err |-> MsgBadFormat]
    ELSE IF qrData.kind = "null"
      THEN [found |-> FALSE, qrData |-> JsNull, err |-> MsgMissingInfo]
    ELSE [found |-> TRUE, qrData |-> qrData, err |-> Null]

\* processImageData: jsQR on the frame, then JSON.parse and validation.
\* qrData is the value returned (JsNull stands for "return null"), err the
\* message passed to setError/onScanError/toast.error (Null when no error).
ProcessImageData(frame) ==
  IF frame = NoSymbol
    THEN [found |-> FALSE, qrData |-> JsNull, err |-> Null]
  ELSE LET qrData == JSONParse(frame) IN
    IF qrData.kind = "SyntaxError"
      THEN [found |-> FALSE, qrData |-> JsNull, err |-> MsgBadFormat]
    ELSE IF qrData.kind = "null" \/ ~Truthy(qrData.indexNumber)
      THEN [found |-> FALSE, qrData |-> JsNull, err |-> MsgMissingInfo]
    ELSE [found |-> TRUE, qrData |-> qrData, err |-> Null]

\* Variant of the catch block that prefers the message of the response body
ErrorMessage_BodyFirst(r) ==
  IF r.hasResponse /\ Truthy(r.bodyMessage) THEN r.bodyMessage
  ELSE IF r.hasResponse /\ r.status = 404 THEN MsgNotFound
  ELSE IF r.hasResponse /\ r.status = 409 THEN MsgAlreadyMarked
  ELSE MsgFailedToMark

\* The message handleQRCodeDetected's catch block shows for a rejected or
\* unusable submission.
ErrorMessage(r) ==
  IF r.hasResponse /\ r.status = 404 THEN MsgNotFound
  ELSE IF r.hasResponse /\ r.status = 409 THEN MsgAlreadyMarked
  ELSE IF r.hasResponse THEN OrElse(r.bodyMessage, MsgFailedToMark)
  ELSE MsgFailedToMark

\* The validation at the top of handleQRCodeDetected
HandleQRCodeValid(qrData) == qrData.kind # "null" /\ Truthy(qrData.indexNumber)

\* The request qrCodeService.markAttendance posts for a payload
MarkAttendanceRequest(qrData) ==
  [qrCodeData |-> qrData, scanLocation |-> "QR Scanner App"]

\* An unresolved markAttendance call: the request, for DigitalQRScanner
\* the previewUrl seen by the resetScanner its continuation will call, and
\* how far api.post has got: "health" while the request interceptor awaits
\* checkServerConnectivity, "post" once the request itself has been sent.
Call(req, preview) == [req |-> req, preview |-> preview, phase |-> "health"]

\* The replies that can settle a call in its current phase: a failed health
\* probe rejects it while the probe is awaited, everything else ends the
\* request that was sent after the probe.
RepliesFor(call) ==
  {reply \in Replies : (reply.type = "healthDown") <=> (call.phase = "health")}

\* The member of Replies that carries no response: the probe failed
\* ("healthDown") or the request got no answer ("noResponse")
TimerReply(type) ==
  [type |-> type, status |-> 0, data |-> FALSE,
   attendanceStatus |-> Undefined, message |-> Undefined]

\* The reply that stands for a timer of axios ending the wait of a call: the
\* probe's timeout while the probe is awaited, the instance's timeout once
\* the request is sent.  A timeout of 0 arms no timer.
TimeoutReplies(call) ==
  IF call.phase = "health"
    THEN IF HealthConfig.timeout > 0 THEN {TimerReply("healthDown")} ELSE {}
    ELSE IF ApiConfig.timeout > 0 THEN {TimerReply("noResponse")} ELSE {}

\* <Webcam/> is rendered unless cameraPermission === false; it requests its
\* own stream when it mounts and releases it when it unmounts.
NextWebcam(permOld, permNew) ==
  IF ~mounted THEN webcamMedia
  ELSE IF permNew = "false" THEN "none"
  ELSE IF permOld = "false" THEN "pending"
  ELSE webcamMedia

\* What stopScanning reads and writes
ScanState == [timers |-> timers, intervalRef |-> intervalRef, scanning |-> scanning]

\* stopScanning as a function of the state it is called in
StoppedScanning(st) ==
  [timers |-> IF st.intervalRef # 0 THEN st.timers \ {st.intervalRef} ELSE st.timers,
   intervalRef |-> 0,
   scanning |-> SetState(st.scanning, FALSE)]

\* stopScanning
StopScanning ==
  /\ timers' = StoppedScanning(ScanState).timers
  /\ intervalRef' = StoppedScanning(ScanState).intervalRef
  /\ scanning' = StoppedScanning(ScanState).scanning

\* startScanning, as the closure that is called sees it: permSeen is the
\* cameraPermission of the render that created it, err the error state
\* before the call, F the effects of the handler so far, checks the number
\* of pending permission probes before the call.
StartScanning(permSeen, err, F, checks) ==
  IF permSeen # "true"
    THEN /\ permChecks' = checks + 1
         /\ error' = err
         /\ fx' = [F EXCEPT !.getUserMedia = 1]
         /\ UNCHANGED <<scanning, intervalRef, timers>>
    ELSE /\ FreeTimerIds # {}
         /\ LET id == CHOOSE i \in FreeTimerIds : \A j \in FreeTimerIds : i <= j IN
              /\ timers' = timers \cup {id}
              /\ intervalRef' = id
         /\ scanning' = SetState(scanning, TRUE)
         /\ error' = SetState(err, Null)
         /\ fx' = [F EXCEPT !.armed = 1]
         /\ permChecks' = checks

\* checkCameraPermission, getUserMedia fulfilled: the probe stream's tracks
\* are stopped at once; the permission effect runs startScanning when
\* cameraPermission became true in this render.
PermCheckGranted ==
  /\ comp = "webcam"
  /\ permChecks > 0
  /\ cameraPermission' = SetState(cameraPermission, "true")
  /\ webcamMedia' = NextWebcam(cameraPermission, "true")
  /\ IF mounted /\ cameraPermission # "true"
       THEN StartScanning("true", Null, Fx("permGranted", ""), permChecks - 1)
       ELSE /\ fx' = Fx("permGranted", "")
            /\ permChecks' = permChecks - 1
            /\ error' = SetState(error, Null)
            /\ UNCHANGED <<timers, intervalRef, scanning>>
  /\ UNCHANGED <<comp, mounted, loading, availableCameras, pending, inflight,
                 cooldowns, enumPending, closure,
                 notWebcam>>

\* checkCameraPermission, getUserMedia rejected
PermCheckDenied ==
  /\ comp = "webcam"
  /\ permChecks > 0
  /\ permChecks' = permChecks - 1
  /\ cameraPermission' = SetState(cameraPermission, "false")
  /\ webcamMedia' = NextWebcam(cameraPermission, "false")
  /\ error' = SetState(error, MsgDenied)
  /\ fx' = [Fx("permDenied", "") EXCEPT !.onScanError = 1]
  /\ UNCHANGED <<comp, mounted, scanning, loading, availableCameras, intervalRef,
                 timers, pending, inflight, cooldowns, enumPending, closure,
                 notWebcam>>

\* Numbers of video inputs enumerateDevices may report
CameraCounts == {0, 2}

\* getAvailableCameras, enumerateDevices fulfilled with n video inputs
EnumResolve ==
  /\ comp = "webcam"
  /\ enumPending
  /\ enumPending' = FALSE
  /\ \E n \in CameraCounts :
       /\ availableCameras' = SetState(availableCameras, n)
       /\ IF n = 0
            THEN /\ error' = SetState(error, MsgNoCameras)
                 /\ cameraPermission' = SetState(cameraPermission, "false")
                 /\ webcamMedia' = NextWebcam(cameraPermission, "false")
                 /\ fx' = [Fx("enumResolve", ToString(n)) EXCEPT !.onScanError = 1]
            ELSE /\ fx' = Fx("enumResolve", ToString(n))
                 /\ UNCHANGED <<error, cameraPermission, webcamMedia>>
  /\ UNCHANGED <<comp, mounted, scanning, loading, intervalRef, timers, pending,
                 inflight, cooldowns, permChecks, closure,
                 notWebcam>>

\* getAvailableCameras, enumerateDevices missing or rejected
EnumReject ==
  /\ comp = "webcam"
  /\ enumPending
  /\ enumPending' = FALSE
  /\ error' = SetState(error, MsgDetectFailed)
  /\ fx' = [Fx("enumReject", "") EXCEPT !.onScanError = 1]
  /\ UNCHANGED <<comp, mounted, scanning, loading, cameraPermission, availableCameras,
                 intervalRef, timers, pending, inflight, cooldowns, permChecks,
                 webcamMedia, closure,
                 notWebcam>>

\* <Webcam/> obtained its stream
WebcamGranted ==
  /\ comp = "webcam"
  /\ webcamMedia = "pending"
  /\ webcamMedia' = "live"
  /\ fx' = Fx("webcamGranted", "")
  /\ UNCHANGED <<comp, mounted, scanning, loading, error, cameraPermission,
                 availableCameras, intervalRef, timers, pending, inflight, cooldowns,
                 permChecks, enumPending, closure,
                 notWebcam>>

\* <Webcam onUserMediaError>
WebcamError ==
  /\ comp = "webcam"
  /\ webcamMedia = "pending"
  /\ webcamMedia' = "none"
  /\ error' = SetState(error, MsgWebcam)
  /\ cameraPermission' = SetState(cameraPermission, "false")
  /\ fx' = [Fx("webcamError", "") EXCEPT !.onScanError = 1]
  /\ UNCHANGED <<comp, mounted, scanning, loading, availableCameras, intervalRef,
                 timers, pending, inflight, cooldowns, permChecks, enumPending,
                 closure,
                 notWebcam>>

\* One 500 ms tick of an armed interval: captureAndProcessFrame up to
\* image.src = imageSrc.  The decode happens later, in image.onload; what
\* the captured frame shows is not observed before then, so the model draws
\* it when image.onload runs.
Tick ==
  /\ comp = "webcam"
  /\ timers # {}
  /\ IF ~WebcamRendered \/ webcamMedia # "live"
       THEN /\ fx' = Fx("tick", NotReady)
            /\ UNCHANGED pending
       ELSE \E ready \in BOOLEAN :
              IF ~ready
                THEN /\ fx' = Fx("tick", NotReady)
                     /\ UNCHANGED pending
                ELSE /\ Outstanding < MaxOutstanding
                     /\ pending' = pending + 1
                     /\ fx' = Fx("tick", "captured")
  /\ UNCHANGED <<comp, mounted, scanning, loading, error, cameraPermission,
                 availableCameras, intervalRef, timers, inflight, cooldowns,
                 permChecks, enumPending, webcamMedia, closure,
                 notWebcam>>

\* image.onload of one captured frame: processImageData, and on a valid
\* payload stopScanning and handleQRCodeDetected up to the await of
\* qrCodeService.markAttendance.
Onload ==
  /\ comp = "webcam"
  /\ pending > 0
  /\ pending' = pending - 1
  /\ \E frame \in Frames :
       LET r == ProcessImageData(frame) IN
         IF r.found
           THEN /\ StopScanning
                /\ IF HandleQRCodeValid(r.qrData)
                     THEN /\ loading' = SetState(loading, TRUE)
                          /\ inflight' = inflight (+)
                               SetToBag({Call(MarkAttendanceRequest(r.qrData), FALSE)})
                          /\ fx' = [Fx("onload", frame) EXCEPT !.stopped = TRUE, !.issued = 1]
                          /\ UNCHANGED <<error, cooldowns>>
                     ELSE /\ cooldowns' = cooldowns + 1
                          /\ loading' = SetState(loading, FALSE)
                          /\ error' = SetState(error, MsgFailedToMark)
                          /\ fx' = [Fx("onload", frame) EXCEPT !.stopped = TRUE,
                                                               !.onScanError = 1]
                          /\ UNCHANGED inflight
           ELSE /\ error' = (IF r.err = Null THEN error ELSE SetState(error, r.err))
                /\ fx' = [Fx("onload", frame) EXCEPT
                            !.onScanError = (IF r.err = Null THEN 0 ELSE 1)]
                /\ UNCHANGED <<timers, intervalRef, scanning, loading, inflight, cooldowns>>
  /\ UNCHANGED <<comp, mounted, cameraPermission, availableCameras, permChecks,
                 enumPending, webcamMedia, closure, notWebcam>>

\* The error handleQRCodeDetected's catch block receives: the rejection of
\* markAttendance, or the Error thrown for a response without data.
CaughtError(r) ==
  IF r.ok
    THEN [ok |-> FALSE, hasResponse |-> FALSE, status |-> 0, data |-> FALSE,
          attendanceStatus |-> Undefined, dataStatus |-> Undefined,
          bodyMessage |-> Undefined,
          message |-> MsgInvalidResponse]
    ELSE r

\* How often the continuation of a submission calls onScanSuccess: once,
\* in the branch taken for a response that has data
SuccessCalls(r) == IF r.ok /\ r.data THEN 1 ELSE 0

\* Variant of the continuation in which a response without data reaches no
\* catch block
ErrorCalls_RejectionsOnly(r) == IF r.ok THEN 0 ELSE 1

\* How often the continuation of a submission calls onScanError: once, in
\* the catch block, which a rejection and the Error thrown for a response
\* without data both reach
ErrorCalls(r) == IF r.ok /\ r.data THEN 0 ELSE 1

\* The outcome handleQRCodeDetected passes to onScanSuccess
WebcamOutcomeStatus(r) == OrElse(r.dataStatus, "present")

\* The outcome status DigitalQRScanner and the react-qr-reader scanner
\* pass to onScanSuccess
OutcomeStatus(r) == OrElse(r.attendanceStatus, "entered")

\* The continuation of handleQRCodeDetected once markAttendance settles:
\* the success callback, or the catch block with its 3-second setTimeout,
\* and the finally block.
SubmitSettleWith(s, reply) ==
  /\ comp = "webcam"
  /\ LET r == ApiSettle(reply) IN
         /\ inflight' = inflight (-) SetToBag({s})
         /\ IF r.ok /\ r.data
              THEN /\ fx' = [Fx("submitOk", ToString(r.status)) EXCEPT
                               !.onScanSuccess = SuccessCalls(r),
                               !.outcomeStatus = WebcamOutcomeStatus(r),
                               !.reported = r.attendanceStatus]
                   /\ UNCHANGED <<error, cooldowns>>
              ELSE /\ error' = SetState(error, ErrorMessage(CaughtError(r)))
                   /\ cooldowns' = cooldowns + 1
                   /\ fx' = [Fx("submitFailed", ToString(r.status)) EXCEPT
                               !.onScanError = ErrorCalls(r),
                               !.body = r.bodyMessage]
  /\ loading' = SetState(loading, FALSE)
  /\ UNCHANGED <<comp, mounted, scanning, cameraPermission, availableCameras,
                 intervalRef, timers, pending, permChecks, enumPending, webcamMedia,
                 closure,
                 notWebcam>>

\* One unresolved markAttendance call settles: the continuation of handleQRCodeDetected
\* runs on what the remote side did.
SubmitSettle ==
  \E s \in BagToSet(inflight) : \E reply \in RepliesFor(s) : SubmitSettleWith(s, reply)

\* The 3-second timeout set by a failed submission: setError(null) and the
\* startScanning of the closure the submission ran in.
Cooldown ==
  /\ comp = "webcam"
  /\ cooldowns > 0
  /\ cooldowns' = cooldowns - 1
  /\ StartScanning(ClosurePermission, SetState(error, Null), Fx("cooldown", ""),
                   permChecks)
  /\ UNCHANGED <<comp, mounted, loading, cameraPermission, availableCameras,
                 pending, inflight, enumPending, webcamMedia, closure,
                 notWebcam>>

\* The operator presses Scan Again (rendered when !scanning && !loading && !error)
ScanAgain ==
  /\ comp = "webcam"
  /\ mounted /\ ~scanning /\ ~loading /\ error = Null
  /\ cameraPermission = "true" \/ Outstanding < MaxOutstanding
  /\ StartScanning(cameraPermission, error, Fx("scanAgain", ""), permChecks)
  /\ UNCHANGED <<comp, mounted, loading, cameraPermission, availableCameras,
                 pending, inflight, cooldowns, enumPending, webcamMedia, closure,
                 notWebcam>>

\* The operator presses Try Again (rendered when cameraPermission === false)
TryAgain ==
  /\ comp = "webcam"
  /\ mounted /\ cameraPermission = "false"
  /\ Outstanding < MaxOutstanding
  /\ permChecks' = permChecks + 1
  /\ fx' = [Fx("tryAgain", "") EXCEPT !.getUserMedia = 1]
  /\ UNCHANGED <<comp, mounted, scanning, loading, error, cameraPermission,
                 availableCameras, intervalRef, timers, pending, inflight, cooldowns,
                 enumPending, webcamMedia, closure,
                 notWebcam>>

\* The scanner unmounts: the mount effect's cleanup clears the interval
\* held in intervalRef; <Webcam/> unmounts with it.
Unmount ==
  /\ comp = "webcam"
  /\ mounted
  /\ mounted' = FALSE
  /\ timers' = timers \ {intervalRef}
  /\ webcamMedia' = "none"
  /\ fx' = Fx("unmount", "")
  /\ UNCHANGED <<comp, scanning, loading, error, cameraPermission, availableCameras,
                 intervalRef, pending, inflight, cooldowns, permChecks, enumPending,
                 closure,
                 notWebcam>>

\* ======================================================================
\*  useQRScanner (hooks/useQRScanner)
\* ======================================================================
MsgCameraFailed == "Failed to access camera: "

FreeStreamIds == (1..MaxStreams) \ (streams \cup {streamRef})
FreeFrameIds == (1..MaxFrames) \ (rafs \cup {animationRef})

\* The `scanning` that processFrame reads.  startScanner is memoized with no
\* dependencies, so the processFrame it schedules (and that re-schedules
\* itself) is the one of the first render, created when scanning was false.
ProcessFrameScanning == FALSE

\* What stopScanner reads and writes
HookState ==
  [rafs |-> rafs, animationRef |-> animationRef, streams |-> streams,
   streamRef |-> streamRef, metaPending |-> metaPending, scanning |-> scanning]

\* Variant of stopScanner that toggles scanning instead of clearing it
StoppedScanner_Toggle(st) ==
  [rafs |-> st.rafs \ {st.animationRef}, animationRef |-> 0,
   streams |-> st.streams \ {st.streamRef}, streamRef |-> 0,
   metaPending |-> FALSE, scanning |-> SetState(st.scanning, ~st.scanning)]

\* stopScanner as a function of the state it is called in
StoppedScanner(st) ==
  [rafs |-> IF st.animationRef # 0 THEN st.rafs \ {st.animationRef} ELSE st.rafs,
   animationRef |-> 0,
   streams |-> IF st.streamRef # 0 THEN st.streams \ {st.streamRef} ELSE st.streams,
   streamRef |-> 0,
   metaPending |-> FALSE,
   scanning |-> SetState(st.scanning, FALSE)]

\* stopScanner, with the video element attached or not
StopScanner ==
  /\ rafs' = StoppedScanner(HookState).rafs
  /\ animationRef' = StoppedScanner(HookState).animationRef
  /\ streams' = StoppedScanner(HookState).streams
  /\ streamRef' = StoppedScanner(HookState).streamRef
  /\ metaPending' = StoppedScanner(HookState).metaPending
  /\ scanning' = StoppedScanner(HookState).scanning
  /\ released' = TRUE

\* startScanner up to the await of getUserMedia
HookStart ==
  /\ comp = "hook"
  /\ mounted
  /\ gumPending < MaxStarts
  /\ error' = Null
  /\ scannedData' = Null
  /\ scanning' = TRUE
  /\ gumPending' = gumPending + 1
  /\ released' = FALSE
  /\ fx' = [Fx("startScanner", "") EXCEPT !.getUserMedia = 1]
  /\ UNCHANGED <<comp, mounted, loading, cameraPermission, inflight, webcamMedia,
                 streams, streamRef, animationRef, rafs, metaPending, webcamOnly, elsewhere,
                 digitalOnly>>

\* startScanner after getUserMedia fulfilled: the stream is stored in
\* streamRef and handed to the video element when one is attached.
HookGranted ==
  /\ comp = "hook"
  /\ gumPending > 0
  /\ FreeStreamIds # {}
  /\ gumPending' = gumPending - 1
  /\ LET id == CHOOSE i \in FreeStreamIds : \A j \in FreeStreamIds : i <= j IN
       /\ streams' = streams \cup {id}
       /\ streamRef' = id
  /\ metaPending' = (IF mounted THEN TRUE ELSE metaPending)
  /\ fx' = Fx("startGranted", "")
  /\ UNCHANGED <<comp, mounted, scanning, loading, error, cameraPermission, inflight,
                 webcamMedia, scannedData, animationRef, rafs, released, webcamOnly, elsewhere,
                 digitalOnly>>

\* startScanner after getUserMedia rejected
HookRejected ==
  /\ comp = "hook"
  /\ gumPending > 0
  /\ gumPending' = gumPending - 1
  /\ error' = SetState(error, MsgCameraFailed)
  /\ scanning' = SetState(scanning, FALSE)
  /\ fx' = Fx("startRejected", "")
  /\ UNCHANGED <<comp, mounted, loading, cameraPermission, inflight, webcamMedia,
                 streams, scannedData, hookOnly, webcamOnly, elsewhere, digitalOnly>>

\* video.onloadedmetadata: the first frame request
HookMetadata ==
  /\ comp = "hook"
  /\ metaPending
  /\ FreeFrameIds # {}
  /\ metaPending' = FALSE
  /\ LET id == CHOOSE i \in FreeFrameIds : \A j \in FreeFrameIds : i <= j IN
       /\ rafs' = rafs \cup {id}
       /\ animationRef' = id
  /\ fx' = Fx("loadedmetadata", "")
  /\ UNCHANGED <<comp, mounted, scanning, loading, error, cameraPermission, inflight,
                 webcamMedia, streams, gumPending, scannedData, streamRef, released,
                 webcamOnly, elsewhere, digitalOnly>>

\* processFrame, run by a scheduled animation frame
HookFrame ==
  /\ comp = "hook"
  /\ \E f \in rafs, frame \in {NotReady, NoSymbol, TxtGarbage, TxtIndexOnly} :
       IF ~ProcessFrameScanning \/ ~mounted
         THEN /\ rafs' = rafs \ {f}
              /\ fx' = Fx("processFrame", frame)
              /\ UNCHANGED <<animationRef, streams, streamRef, metaPending, scanning,
                             released, scannedData>>
         ELSE IF frame \in {NotReady, NoSymbol}
           THEN /\ rafs' = (rafs \ {f}) \cup {f}
                /\ animationRef' = f
                /\ fx' = Fx("processFrame", frame)
                /\ UNCHANGED <<streams, streamRef, metaPending, scanning, released,
                               scannedData>>
           ELSE /\ scannedData' = SetState(scannedData, frame)
                /\ fx' = [Fx("processFrame", frame) EXCEPT !.stopped = TRUE]
                /\ animationRef' = 0
                /\ rafs' = rafs \ {f, animationRef}
                /\ streams' = streams \ {streamRef}
                /\ streamRef' = 0
                /\ metaPending' = FALSE
                /\ scanning' = SetState(scanning, FALSE)
                /\ released' = TRUE
  /\ UNCHANGED <<comp, mounted, loading, error, cameraPermission, inflight,
                 webcamMedia, gumPending, webcamOnly, elsewhere, digitalOnly>>

\* The host calls stopScanner
HookStop ==
  /\ comp = "hook"
  /\ mounted
  /\ StopScanner
  /\ fx' = [Fx("stopScanner", "") EXCEPT !.stopped = TRUE]
  /\ UNCHANGED <<comp, mounted, loading, error, cameraPermission, inflight,
                 webcamMedia, gumPending, scannedData, webcamOnly, elsewhere, digitalOnly>>

\* The host unmounts: the cleanup effect calls stopScanner
HookUnmount ==
  /\ comp = "hook"
  /\ mounted
  /\ mounted' = FALSE
  /\ StopScanner
  /\ fx' = [Fx("unmount", "") EXCEPT !.stopped = TRUE]
  /\ UNCHANGED <<comp, loading, error, cameraPermission, inflight, webcamMedia,
                 gumPending, scannedData, webcamOnly, elsewhere, digitalOnly>>

\* ======================================================================
\*  react-qr-reader scanner: components/QRScanner.jsx
\* ======================================================================
MsgRqrDenied == "Camera access denied. Please enable camera permissions in your browser settings."
MsgRqrBadFormat == "Invalid QR code format. Please scan a valid student QR code."
MsgRqrMissing == "Invalid QR code. Missing required student information."
MsgRqrFailed == "Failed to process QR code"
MsgTypeError == "Cannot read properties of null (reading 'indexNumber')"

\* <QrReader/> is rendered by the last return of the component
ReaderRendered(m, l, e, p, sd, sc) ==
  m /\ ~l /\ e = Null /\ p # "false" /\ sd = Null /\ sc

\* <QrReader/> requests its own stream when it mounts and releases it when
\* it unmounts.
ReaderFollowsRender ==
  webcamMedia' =
    IF ReaderRendered(mounted', loading', error', cameraPermission', scannedData', scanning')
      THEN IF ReaderRendered(mounted, loading, error, cameraPermission, scannedData, scanning)
             THEN webcamMedia ELSE "pending"
      ELSE "none"

\* handleScan up to the await of markAttendance: the payload it submits, or
\* the message of the error it throws.
HandleScanParse(text) ==
  LET qrData == JSONParse(text) IN
    IF qrData.kind = "SyntaxError" THEN [ok |-> FALSE, qrData |-> JsNull, err |-> MsgRqrBadFormat]
    ELSE IF qrData.kind = "null" THEN [ok |-> FALSE, qrData |-> JsNull, err |-> MsgTypeError]
    ELSE IF ~Truthy(qrData.indexNumber) \/ ~Truthy(qrData.name)
      THEN [ok |-> FALSE, qrData |-> JsNull, err |-> MsgRqrMissing]
    ELSE [ok |-> TRUE, qrData |-> qrData, err |-> Null]

\* requestCameraPermission, getUserMedia fulfilled: the stream is dropped
\* without stopping its tracks.
RqrPermGranted ==
  /\ comp = "rqr"
  /\ gumPending > 0
  /\ FreeStreamIds # {}
  /\ gumPending' = gumPending - 1
  /\ streams' = streams \cup {CHOOSE i \in FreeStreamIds : \A j \in FreeStreamIds : i <= j}
  /\ cameraPermission' = SetState(cameraPermission, "true")
  /\ fx' = Fx("permGranted", "")
  /\ UNCHANGED <<comp, mounted, scanning, loading, error, inflight, scannedData,
                 webcamOnly, elsewhere, hookOnly, digitalOnly>>
  /\ ReaderFollowsRender

\* requestCameraPermission, getUserMedia rejected
RqrPermDenied ==
  /\ comp = "rqr"
  /\ gumPending > 0
  /\ gumPending' = gumPending - 1
  /\ cameraPermission' = SetState(cameraPermission, "false")
  /\ error' = SetState(error, MsgRqrDenied)
  /\ fx' = Fx("permDenied", "")
  /\ UNCHANGED <<comp, mounted, scanning, loading, inflight, streams, scannedData,
                 webcamOnly, elsewhere, hookOnly, digitalOnly>>
  /\ ReaderFollowsRender

\* <QrReader/> obtained its stream
RqrReaderGranted ==
  /\ comp = "rqr"
  /\ webcamMedia = "pending"
  /\ webcamMedia' = "live"
  /\ fx' = Fx("readerGranted", "")
  /\ UNCHANGED <<comp, mounted, scanning, loading, error, cameraPermission, inflight,
                 streams, gumPending, scannedData, webcamOnly, elsewhere, hookOnly, digitalOnly>>

\* handleError, called by <QrReader onError>
RqrReaderError ==
  /\ comp = "rqr"
  /\ webcamMedia = "pending"
  /\ error' = SetState(error, MsgWebcam)
  /\ fx' = [Fx("readerError", "") EXCEPT !.onScanError = 1]
  /\ UNCHANGED <<comp, mounted, scanning, loading, cameraPermission, inflight, streams,
                 gumPending, scannedData, webcamOnly, elsewhere, hookOnly, digitalOnly>>
  /\ ReaderFollowsRender

\* handleScan(data) with a decoded text, up to the await of markAttendance
RqrScan ==
  /\ comp = "rqr"
  /\ ReaderRendered(mounted, loading, error, cameraPermission, scannedData, scanning)
  /\ webcamMedia = "live"
  /\ \E text \in Texts :
       LET r == HandleScanParse(text) IN
         IF r.ok
           THEN /\ Outstanding < MaxOutstanding
                /\ loading' = SetState(loading, TRUE)
                /\ inflight' = inflight (+) SetToBag({Call(MarkAttendanceRequest(r.qrData), FALSE)})
                /\ fx' = [Fx("handleScan", text) EXCEPT !.issued = 1]
                /\ UNCHANGED error
           ELSE /\ error' = SetState(error, r.err)
                /\ fx' = [Fx("handleScan", text) EXCEPT !.onScanError = 1]
                /\ UNCHANGED <<loading, inflight>>
  /\ UNCHANGED <<comp, mounted, scanning, cameraPermission, streams, gumPending,
                 scannedData, webcamOnly, elsewhere, hookOnly, digitalOnly>>
  /\ ReaderFollowsRender

\* The continuation of handleScan once markAttendance settles
RqrSettleWith(s, reply) ==
  /\ comp = "rqr"
  /\ LET r == ApiSettle(reply) IN
         /\ inflight' = inflight (-) SetToBag({s})
         /\ IF r.ok /\ r.data
              THEN /\ scannedData' = SetState(scannedData, s.req.qrCodeData.indexNumber)
                   /\ scanning' = SetState(scanning, FALSE)
                   /\ fx' = [Fx("submitOk", ToString(r.status)) EXCEPT
                               !.onScanSuccess = SuccessCalls(r),
                               !.outcomeStatus = OutcomeStatus(r),
                               !.reported = r.attendanceStatus]
                   /\ UNCHANGED error
              ELSE /\ error' = SetState(error, OrElse(CaughtError(r).message, MsgRqrFailed))
                   /\ fx' = [Fx("submitFailed", ToString(r.status)) EXCEPT
                               !.onScanError = ErrorCalls(r),
                               !.body = r.bodyMessage]
                   /\ UNCHANGED <<scannedData, scanning>>
  /\ loading' = SetState(loading, FALSE)
  /\ UNCHANGED <<comp, mounted, cameraPermission, streams, gumPending, webcamOnly, elsewhere,
                 hookOnly, digitalOnly>>
  /\ ReaderFollowsRender

\* One unresolved markAttendance call settles: the continuation of handleScan
\* runs on what the remote side did.
RqrSettle ==
  \E s \in BagToSet(inflight) : \E reply \in RepliesFor(s) : RqrSettleWith(s, reply)

\* Try Again of the error view
RqrTryAgain ==
  /\ comp = "rqr"
  /\ mounted /\ ~loading /\ error # Null
  /\ error' = Null
  /\ scanning' = TRUE
  /\ fx' = Fx("tryAgain", "")
  /\ UNCHANGED <<comp, mounted, loading, cameraPermission, inflight, streams,
                 gumPending, scannedData, webcamOnly, elsewhere, hookOnly, digitalOnly>>
  /\ ReaderFollowsRender

\* Scan Another of the success view
RqrScanAnother ==
  /\ comp = "rqr"
  /\ mounted /\ ~loading /\ error = Null /\ cameraPermission # "false"
  /\ scannedData # Null
  /\ scannedData' = Null
  /\ scanning' = TRUE
  /\ fx' = Fx("scanAnother", "")
  /\ UNCHANGED <<comp, mounted, loading, error, cameraPermission, inflight, streams,
                 gumPending, webcamOnly, elsewhere, hookOnly, digitalOnly>>
  /\ ReaderFollowsRender

\* The component unmounts; the cleanup's setScanning(false) has no effect
RqrUnmount ==
  /\ comp = "rqr"
  /\ mounted
  /\ mounted' = FALSE
  /\ fx' = Fx("unmount", "")
  /\ UNCHANGED <<comp, scanning, loading, error, cameraPermission, inflight, streams,
                 gumPending, scannedData, webcamOnly, elsewhere, hookOnly, digitalOnly>>
  /\ ReaderFollowsRender

\* ======================================================================
\*  DigitalQRScanner: components/scanner/QRScanner.jsx
\* ======================================================================
MsgNoFile == "No file selected"
MsgFileType == "File type not supported. Please upload a JPEG, PNG, GIF, or WebP image."
MsgFileSize == "File size exceeds 5MB limit."
MsgReadFailed == "Failed to read file. Please try again with a different file."
MsgLoadFailed == "Failed to load image. The file may be corrupted or not a valid image."
MsgNoQr == "No QR code found in the image. Please try a different image with a clearer QR code."
MsgNotRecognized == "QR code found but data format is not recognized. Please try a different QR code."
MsgMissingIndex == "Invalid QR code data. Missing student index number."
MsgProcessFailed == "Failed to process attendance"

\* validateFile: the message it sets, or Null for an accepted file
ValidateFile(file) ==
  CASE file = "none" -> MsgNoFile
    [] file = "badType" -> MsgFileType
    [] file = "tooLarge" -> MsgFileSize
    [] OTHER -> Null

\* Does the text contain "indexNumber=" ?
HasIndexParam(text) == text \in {TxtUrl, TxtUrlEmpty, TxtQuery}

\* new URL(text).searchParams for the texts above: thrown is TRUE when the
\* text is no absolute URL.
ParseUrl(text) ==
  CASE text = TxtUrl -> [thrown |-> FALSE, indexNumber |-> "S1", name |-> "Ann"]
    [] text = TxtUrlEmpty -> [thrown |-> FALSE, indexNumber |-> "", name |-> Null]
    [] OTHER -> [thrown |-> TRUE, indexNumber |-> Null, name |-> Null]

\* detectQRCode's interpretation of the decoded text: JSON first, then a
\* URL with an indexNumber parameter, else {rawData: text}.
DetectQRCode(text) ==
  LET qrData == JSONParse(text) IN
    IF qrData.kind # "SyntaxError" THEN [ok |-> TRUE, qrData |-> qrData]
    ELSE IF HasIndexParam(text)
      THEN LET u == ParseUrl(text) IN
             IF ~u.thrown /\ Truthy(u.indexNumber)
               THEN [ok |-> TRUE, qrData |-> Obj(u.indexNumber, u.name, Undefined)]
               ELSE [ok |-> FALSE, qrData |-> JsNull]
    ELSE [ok |-> TRUE, qrData |-> Obj(Undefined, Undefined, text)]

\* Variant of the validation that lets a payload without indexNumber pass
DigitalValidate_NoIndexCheck(qrData) ==
  IF qrData.kind = "null" THEN MsgTypeError ELSE Null

\* The validation at the top of DigitalQRScanner's handleQRCodeDetected:
\* Null when the payload goes on to markAttendance, else the error message.
DigitalValidate(qrData) ==
  IF qrData.kind = "null" THEN MsgTypeError
  ELSE IF ~Truthy(qrData.indexNumber) THEN MsgMissingIndex
  ELSE Null

\* handleFileChange: validateFile and, for an accepted file, processImage
DgFileChange ==
  /\ comp = "digital"
  /\ mounted
  /\ \E file \in {"none", "badType", "tooLarge", "image"} :
       /\ apiError' = Null
       /\ error' = ValidateFile(file)
       /\ IF ValidateFile(file) = Null
            THEN /\ Outstanding < MaxOutstanding
                 /\ previewUrl' = TRUE
                 /\ loading' = TRUE
                 /\ decodes' = decodes (+) SetToBag({previewUrl})
            ELSE UNCHANGED <<previewUrl, loading, decodes>>
       /\ fx' = Fx("fileChange", file)
  /\ UNCHANGED <<comp, mounted, scanning, cameraPermission, inflight, webcamMedia,
                 streams, gumPending, scannedData, webcamOnly, elsewhere, hookOnly>>

\* reader.onload / img.onload of one chosen file, or one of their error
\* callbacks: detectQRCode and handleQRCodeDetected up to the await.
DgDecode ==
  /\ comp = "digital"
  /\ \E d \in BagToSet(decodes),
        result \in {"readerError", "imageError", NoSymbol} \cup Texts :
       /\ decodes' = decodes (-) SetToBag({d})
       /\ IF result \in {"readerError", "imageError"}
            THEN /\ loading' = SetState(loading, FALSE)
                 /\ error' = SetState(error, IF result = "readerError" THEN MsgReadFailed
                                             ELSE MsgLoadFailed)
                 /\ fx' = Fx("decode", result)
                 /\ UNCHANGED <<apiError, inflight>>
          ELSE IF ~mounted
            THEN /\ fx' = Fx("decode", "no canvas")
                 /\ UNCHANGED <<loading, error, apiError, inflight>>
          ELSE IF result = NoSymbol
            THEN /\ loading' = FALSE
                 /\ error' = MsgNoQr
                 /\ fx' = Fx("decode", result)
                 /\ UNCHANGED <<apiError, inflight>>
          ELSE LET r == DetectQRCode(result) IN
            IF ~r.ok
              THEN /\ loading' = FALSE
                   /\ error' = MsgNotRecognized
                   /\ fx' = Fx("decode", result)
                   /\ UNCHANGED <<apiError, inflight>>
            ELSE IF DigitalValidate(r.qrData) # Null
              THEN /\ loading' = FALSE
                   /\ apiError' = DigitalValidate(r.qrData)
                   /\ fx' = [Fx("decode", result) EXCEPT !.onScanError = 1]
                   /\ UNCHANGED <<error, inflight>>
            ELSE /\ inflight' = inflight (+) SetToBag({Call(MarkAttendanceRequest(r.qrData), d)})
                 /\ fx' = [Fx("decode", result) EXCEPT !.issued = 1]
                 /\ UNCHANGED <<loading, error, apiError>>
  /\ UNCHANGED <<comp, mounted, scanning, cameraPermission, webcamMedia, streams,
                 gumPending, scannedData, previewUrl, webcamOnly, elsewhere, hookOnly>>

\* The continuation of handleQRCodeDetected once markAttendance settles
DgSettleWith(s, reply) ==
  /\ comp = "digital"
  /\ LET r == ApiSettle(reply) IN
         /\ inflight' = inflight (-) SetToBag({s})
         /\ IF r.ok /\ r.data
              THEN /\ error' = SetState(error, Null)
                   /\ apiError' = SetState(apiError, Null)
                   /\ previewUrl' = (IF s.preview THEN SetState(previewUrl, FALSE) ELSE previewUrl)
                   /\ fx' = [Fx("submitOk", ToString(r.status)) EXCEPT
                               !.onScanSuccess = SuccessCalls(r),
                               !.outcomeStatus = OutcomeStatus(r),
                               !.reported = r.attendanceStatus]
              ELSE /\ apiError' = SetState(apiError, OrElse(CaughtError(r).message, MsgProcessFailed))
                   /\ fx' = [Fx("submitFailed", ToString(r.status)) EXCEPT
                               !.onScanError = ErrorCalls(r),
                               !.body = r.bodyMessage]
                   /\ UNCHANGED <<error, previewUrl>>
  /\ loading' = SetState(loading, FALSE)
  /\ UNCHANGED <<comp, mounted, scanning, cameraPermission, webcamMedia, streams,
                 gumPending, scannedData, decodes, webcamOnly, elsewhere, hookOnly>>

\* One unresolved markAttendance call settles: the continuation of DigitalQRScanner's handleQRCodeDetected
\* runs on what the remote side did.
DgSettle ==
  \E s \in BagToSet(inflight) : \E reply \in RepliesFor(s) : DgSettleWith(s, reply)

\* The Reset button (enabled when previewUrl && !loading): resetScanner
DgReset ==
  /\ comp = "digital"
  /\ mounted /\ previewUrl /\ ~loading
  /\ error' = Null
  /\ apiError' = Null
  /\ loading' = FALSE
  /\ previewUrl' = FALSE
  /\ fx' = Fx("reset", "")
  /\ UNCHANGED <<comp, mounted, scanning, cameraPermission, inflight, webcamMedia,
                 streams, gumPending, scannedData, decodes, webcamOnly, elsewhere, hookOnly>>

\* The component unmounts
DgUnmount ==
  /\ comp = "digital"
  /\ mounted
  /\ mounted' = FALSE
  /\ fx' = Fx("unmount", "")
  /\ UNCHANGED <<comp, scanning, loading, error, cameraPermission, inflight,
                 webcamMedia, streams, gumPending, scannedData, digitalOnly,
                 webcamOnly, elsewhere, hookOnly>>

\* ======================================================================
\*  Pagination: components/common/Pagination.jsx
\* ======================================================================
MaxPages == 8

\* The '...' entry of the page list
Dots == 0

maxPagesDisplayed == 5

Max(a, b) == IF a >= b THEN a ELSE b
Min(a, b) == IF a <= b THEN a ELSE b

\* The pages a, a+1, ..., b pushed by a for loop
PushRange(a, b) == [i \in 1..(b - a + 1) |-> a + i - 1]

\* Variant of getPageNumbers that pushes the dots whenever the window does
\* not start at page 1 or end at the last page
GetPageNumbers_DotsOffByOne(total, current) ==
  IF total <= maxPagesDisplayed
    THEN PushRange(1, total)
    ELSE LET startPage == Max(2, current - 1)
             endPage == Min(total - 1, current + 1)
         IN <<1>>
            \o (IF startPage > 1 THEN <<Dots>> ELSE <<>>)
            \o PushRange(startPage, endPage)
            \o (IF endPage < total THEN <<Dots>> ELSE <<>>)
            \o <<total>>

\* getPageNumbers
GetPageNumbers(total, current) ==
  IF total <= maxPagesDisplayed
    THEN PushRange(1, total)
    ELSE LET startPage == Max(2, current - 1)
             endPage == Min(total - 1, current + 1)
         IN <<1>>
            \o (IF startPage > 2 THEN <<Dots>> ELSE <<>>)
            \o PushRange(startPage, endPage)
            \o (IF endPage < total - 1 THEN <<Dots>> ELSE <<>>)
            \o <<total>>

\* What the component returns: null for a single page, else the buttons of
\* getPageNumbers
PaginationRender(total, current) ==
  IF total <= 1 THEN <<>> ELSE GetPageNumbers(total, current)

\* The operator presses a page button, Previous or Next: handlePageChange
\* calls onPageChange unless the page is out of range or the current one,
\* and the host page renders Pagination again with the page it was given.
PageChange ==
  /\ comp = "pagination"
  /\ \E page \in {p \in 1..totalPages : \E i \in 1..Len(pages) : pages[i] = p}
                  \cup {currentPage - 1, currentPage + 1} :
       /\ IF page < 1 \/ page > totalPages \/ page = currentPage
            THEN /\ fx' = Fx("pageChange", "ignored")
                 /\ UNCHANGED <<currentPage, pages>>
            ELSE /\ currentPage' = page
                 /\ pages' = PaginationRender(totalPages, page)
                 /\ fx' = Fx("pageChange", ToString(page))
  /\ UNCHANGED <<comp, loading, error, scannerState, totalPages, formOnly, authOnly, routeOnly>>

\* ======================================================================
\*  useFormSubmit: hooks/useFormSubmit.js
\* ======================================================================
MaxSubmits == 2

MsgFormNetwork == "Network error. Please check your internet connection."
MsgFormServer == "Server error. Please try again later."
MsgFormCheck == "Please check your information and try again."
MsgFormAuth == "Authentication error. Please log in again."
MsgFormOther == "An error occurred. Please try again."

\* What submitFn resolves with
FormResult == "result"

\* The errors submitFn rejects with: an Error without .response, or an axios
\* error whose response has a status and a body with or without a message
FormErrors ==
  [hasResponse : {FALSE}, status : {0}, bodyMessage : {Undefined}]
  \cup
  [hasResponse : {TRUE}, status : {400, 401, 404, 500},
   bodyMessage : {Undefined, "", MsgBody}]

\* A name for an error object (the model compares errors by it)
FormErrorId(err) ==
  "error " \o ToString(err.status) \o " " \o err.bodyMessage

\* Variant of the catch block that takes the message of the body as it is
FormErrorMessage_BodyAsIs(err) ==
  IF ~err.hasResponse THEN MsgFormNetwork
  ELSE IF err.status >= 500 THEN MsgFormServer
  ELSE IF err.status = 400 THEN err.bodyMessage
  ELSE IF err.status = 401 THEN MsgFormAuth
  ELSE err.bodyMessage

\* The errorMessage the catch block of handleSubmit computes
FormErrorMessage(err) ==
  IF ~err.hasResponse THEN MsgFormNetwork
  ELSE IF err.status >= 500 THEN MsgFormServer
  ELSE IF err.status = 400 THEN OrElse(err.bodyMessage, MsgFormCheck)
  ELSE IF err.status = 401 THEN MsgFormAuth
  ELSE OrElse(err.bodyMessage, MsgFormOther)

\* handleSubmit up to the await of submitFn
FormSubmit ==
  /\ comp = "form"
  /\ submits < MaxSubmits
  /\ submits' = submits + 1
  /\ loading' = TRUE
  /\ error' = Null
  /\ fx' = Fx("handleSubmit", "")
  /\ UNCHANGED <<comp, scannerState, paginationOnly, authOnly, routeOnly>>

\* handleSubmit after submitFn resolved: onSuccess, return, finally
FormResolved ==
  /\ comp = "form"
  /\ submits > 0
  /\ submits' = submits - 1
  /\ loading' = FALSE
  /\ fx' = [Fx("formResolved", FormResult) EXCEPT !.onSuccess = 1, !.arg = FormResult]
  /\ UNCHANGED <<comp, error, scannerState, paginationOnly, authOnly, routeOnly>>

\* handleSubmit after submitFn rejected: the catch block, the rethrow, finally
FormRejected ==
  /\ comp = "form"
  /\ submits > 0
  /\ submits' = submits - 1
  /\ \E err \in FormErrors :
       /\ error' = FormErrorMessage(err)
       /\ fx' = [Fx("formRejected", FormErrorId(err)) EXCEPT
                   !.onError = 1, !.arg = FormErrorId(err), !.thrown = FormErrorId(err)]
  /\ loading' = FALSE
  /\ UNCHANGED <<comp, scannerState, paginationOnly, authOnly, routeOnly>>

\* ======================================================================
\*  authService.logout and the session storage: services/api.js
\* ======================================================================
MaxLogouts == 2

StorageKeys == {"localStorage.token", "localStorage.user", "sessionStorage.token"}

\* What the server (or the lack of one) does with POST /admin/logout
LogoutReplies ==
  [type : {"healthDown", "noResponse"}, status : {0}]
  \cup [type : {"response"}, status : {200, 401, 500}]

\* The response interceptor's handling of a 401: it removes the token and
\* the user from localStorage before it rejects.
InterceptorRemoves(reply) ==
  IF reply.type = "response" /\ reply.status = 401
    THEN {"localStorage.token", "localStorage.user"}
    ELSE {}

\* Variant of logout whose catch block removes nothing
LogoutRemoves_TryOnly(reply) ==
  IF reply.type = "response" /\ reply.status = 200
    THEN {"localStorage.token", "localStorage.user", "sessionStorage.token"}
    ELSE {}

\* The keys logout removes: after the await in the try block when api.post
\* fulfilled, in the catch block when it rejected
LogoutRemoves(reply) ==
  IF reply.type = "response" /\ reply.status = 200
    THEN {"localStorage.token", "localStorage.user", "sessionStorage.token"}
    ELSE {"localStorage.token", "localStorage.user", "sessionStorage.token"}

\* authService.logout up to the await of api.post, whose request interceptor
\* awaits the health probe
Logout ==
  /\ comp = "auth"
  /\ BagCardinality(logouts) < MaxLogouts
  /\ logouts' = logouts (+) SetToBag({"health"})
  /\ fx' = Fx("logout", "")
  /\ UNCHANGED <<comp, loading, error, scannerState, paginationOnly, formOnly, routeOnly,
                 storage>>

\* The request interceptor of a logout after the health probe succeeded
LogoutHealthOk ==
  /\ comp = "auth"
  /\ BagIn("health", logouts)
  /\ logouts' = (logouts (-) SetToBag({"health"})) (+) SetToBag({"post"})
  /\ fx' = Fx("healthOk", "")
  /\ UNCHANGED <<comp, loading, error, scannerState, paginationOnly, formOnly, routeOnly,
                 storage>>

\* api.post of a logout settles and logout runs to its end
LogoutSettle ==
  /\ comp = "auth"
  /\ \E phase \in BagToSet(logouts), reply \in LogoutReplies :
       /\ (reply.type = "healthDown") <=> (phase = "health")
       /\ logouts' = logouts (-) SetToBag({phase})
       /\ storage' = (storage \ InterceptorRemoves(reply)) \ LogoutRemoves(reply)
       /\ fx' = [Fx(IF reply.status = 200 THEN "logoutOk" ELSE "logoutFailed",
                     ToString(reply.status))
                   EXCEPT !.thrown = IF reply.status = 200 THEN Undefined ELSE "error"]
  /\ UNCHANGED <<comp, loading, error, scannerState, paginationOnly, formOnly, routeOnly>>

\* authService.login after api.post fulfilled: the token is stored when the
\* response has one, and the user with it when the response has one
LoginResolved ==
  /\ comp = "auth"
  /\ \E token \in BOOLEAN, userData \in BOOLEAN :
       /\ storage' = storage \cup (IF token THEN {"localStorage.token"} ELSE {})
                             \cup (IF token /\ userData THEN {"localStorage.user"} ELSE {})
       /\ fx' = Fx("login", IF token THEN "token" ELSE "")
  /\ UNCHANGED <<comp, loading, error, scannerState, paginationOnly, formOnly, routeOnly,
                 logouts>>

\* ======================================================================
\*  ProtectedRoute: App.jsx
\* ======================================================================
\* The values useAuth() can hand to ProtectedRoute
AuthStates == [loading : BOOLEAN, isAuthenticated : BOOLEAN, isAdmin : BOOLEAN]

\* The auth state without a session
NoAuth == [loading |-> FALSE, isAuthenticated |-> FALSE, isAdmin |-> FALSE]

\* Variant of ProtectedRoute without the adminOnly check
ProtectedRoute_NoAdminCheck(only, a) ==
  IF a.loading THEN "spinner"
  ELSE IF ~a.isAuthenticated THEN "Navigate /login"
  ELSE "children"

\* ProtectedRoute: what it returns for the prop adminOnly and the auth state
ProtectedRoute(only, a) ==
  IF a.loading THEN "spinner"
  ELSE IF ~a.isAuthenticated THEN "Navigate /login"
  ELSE IF only /\ ~a.isAdmin THEN "Navigate /"
  ELSE "children"

\* The auth context changes (the session check ends, a login, a logout) and
\* ProtectedRoute renders again
AuthChange ==
  /\ comp = "route"
  /\ \E a \in AuthStates \ {auth} :
       /\ auth' = a
       /\ rendered' = ProtectedRoute(adminOnly, a)
  /\ fx' = Fx("authChange", "")
  /\ UNCHANGED <<comp, loading, error, scannerState, paginationOnly, formOnly, authOnly,
                 adminOnly>>

\* ======================================================================
\*  The system
\* ======================================================================
\* The request interceptor of api.post after checkServerConnectivity
\* returned true: the Authorization header is set and the request is sent.
HealthOk ==
  /\ \E s \in BagToSet(inflight) :
       /\ s.phase = "health"
       /\ inflight' = (inflight (-) SetToBag({s})) (+) SetToBag({[s EXCEPT !.phase = "post"]})
  /\ fx' = Fx("healthOk", "")
  /\ UNCHANGED <<comp, mounted, scanning, loading, error, cameraPermission, webcamMedia,
                 streams, gumPending, scannedData, webcamOnly, elsewhere, hookOnly, digitalOnly>>

Components == {"webcam", "digital", "rqr", "hook", "pagination", "form", "auth", "route"}

\* After the first render and its mount effects
Init ==
  /\ comp \in Components
  /\ closure \in (IF comp = "webcam" THEN Closures ELSE {"stale"})
  /\ mounted = TRUE
  /\ scanning = (comp = "rqr")
  /\ loading = FALSE
  /\ error = Null
  /\ cameraPermission = "null"
  /\ availableCameras = 0
  /\ intervalRef = 0
  /\ timers = {}
  /\ pending = 0
  /\ inflight = EmptyBag
  /\ cooldowns = 0
  /\ permChecks = (IF comp = "webcam" THEN 1 ELSE 0)
  /\ enumPending = (comp = "webcam")
  /\ webcamMedia = (IF comp \in {"webcam", "rqr"} THEN "pending" ELSE "none")
  /\ streams = {}
  /\ gumPending = (IF comp = "rqr" THEN 1 ELSE 0)
  /\ scannedData = Null
  /\ streamRef = 0
  /\ animationRef = 0
  /\ rafs = {}
  /\ metaPending = FALSE
  /\ released = FALSE
  /\ apiError = Null
  /\ previewUrl = FALSE
  /\ decodes = EmptyBag
  /\ totalPages \in (IF comp = "pagination" THEN 1..MaxPages ELSE {0})
  /\ currentPage \in (IF comp = "pagination" THEN 1..totalPages ELSE {0})
  /\ pages = PaginationRender(totalPages, currentPage)
  /\ submits = 0
  /\ storage \in (IF comp = "auth" THEN SUBSET StorageKeys ELSE {{}})
  /\ logouts = EmptyBag
  /\ auth \in (IF comp = "route" THEN AuthStates ELSE {NoAuth})
  /\ adminOnly \in (IF comp = "route" THEN BOOLEAN ELSE {FALSE})
  /\ rendered = (IF comp = "route" THEN ProtectedRoute(adminOnly, auth) ELSE "")
  /\ fx = Fx("mount", "")

Next ==
  \/ PermCheckGranted
  \/ PermCheckDenied
  \/ EnumResolve
  \/ EnumReject
  \/ WebcamGranted
  \/ WebcamError
  \/ Tick
  \/ Onload
  \/ SubmitSettle
  \/ Cooldown
  \/ ScanAgain
  \/ TryAgain
  \/ Unmount
  \/ HookStart
  \/ HookGranted
  \/ HookRejected
  \/ HookMetadata
  \/ HookFrame
  \/ HookStop
  \/ HookUnmount
  \/ RqrPermGranted
  \/ RqrPermDenied
  \/ RqrReaderGranted
  \/ RqrReaderError
  \/ RqrScan
  \/ RqrSettle
  \/ RqrTryAgain
  \/ RqrScanAnother
  \/ RqrUnmount
  \/ DgFileChange
  \/ DgDecode
  \/ DgSettle
  \/ DgReset
  \/ DgUnmount
  \/ HealthOk
  \/ PageChange
  \/ FormSubmit
  \/ FormResolved
  \/ FormRejected
  \/ Logout
  \/ LogoutHealthOk
  \/ LogoutSettle
  \/ LoginResolved
  \/ AuthChange

Spec == Init /\ [][Next]_vars

\* A timer of axios ends the wait of an unresolved call: the continuation
\* of the scanner runs on the rejection.
Timeout ==
  /\ inflight # EmptyBag
  /\ \E s \in BagToSet(inflight) : \E reply \in TimeoutReplies(s) :
       \/ comp = "webcam" /\ SubmitSettleWith(s, reply)
       \/ comp = "rqr" /\ RqrSettleWith(s, reply)
       \/ comp = "digital" /\ DgSettleWith(s, reply)

\* The browser runs a timer callback that is due, so a call whose timer is
\* armed does not wait forever; nothing else is assumed to happen.
FairSpec == Spec /\ WF_vars(Timeout)

\* ======================================================================
\*  Properties
\* ======================================================================

\* Decoded texts of the webcam scanner that are not JSON or lack indexNumber
InvalidFrames ==
  {f \in Frames \ {NoSymbol} :
     JSONParse(f).kind = "SyntaxError" \/ ~Truthy(JSONParse(f).indexNumber)}

\* The interval held in intervalRef is armed
SamplingArmed == intervalRef # 0 /\ intervalRef \in timers

\* C1: in the webcam scanner at most one qrCodeService.markAttendance call
\* is unresolved at any time.
C1_AtMostOneSubmission ==
  comp = "webcam" => BagCardinality(inflight) <= 1

\* C2: in useQRScanner, once stopScanner has run (and startScanner was not
\* called again) no stream obtained by the hook has a live track.
C2_ReleasedMeansNoLiveTrack ==
  (comp = "hook" /\ released) => streams = {}

\* C3: at most one camera stream acquired by a scanner's own getUserMedia
\* calls is live at any time.
C3_AtMostOneLiveStream ==
  Cardinality(streams) <= 1

\* C4: in the webcam scanner a sampling tick, and the image.onload of a
\* frame without a QR symbol, leave scanning, the armed timers, error,
\* loading and the submissions as they were, and call neither onScanError
\* nor markAttendance.
C4_NoSymbolChangesNothing ==
  [][(comp = "webcam" /\ (fx'.act = "tick" \/ (fx'.act = "onload" /\ fx'.input = NoSymbol)))
       => /\ scanning' = scanning
          /\ timers' = timers
          /\ intervalRef' = intervalRef
          /\ error' = error
          /\ loading' = loading
          /\ inflight' = inflight
          /\ cooldowns' = cooldowns
          /\ fx'.onScanError = 0
          /\ fx'.issued = 0
          /\ ~fx'.stopped]_vars

\* A frame without a symbol was decoded while the scanner was sampling
C4_Witness ==
  /\ comp = "webcam"
  /\ fx.act = "onload" /\ fx.input = NoSymbol
  /\ scanning /\ SamplingArmed /\ error = Null

\* C5: in the webcam scanner the image.onload of a frame whose text is not
\* JSON or lacks indexNumber reports an invalid payload (error state and
\* onScanError), issues no markAttendance call, does not call stopScanning,
\* and leaves scanning and the armed timers as they were.
C5_InvalidPayloadKeepsSampling ==
  [][(comp = "webcam" /\ fx'.act = "onload" /\ fx'.input \in InvalidFrames)
       => /\ fx'.issued = 0
          /\ ~fx'.stopped
          /\ inflight' = inflight
          /\ cooldowns' = cooldowns
          /\ scanning' = scanning
          /\ timers' = timers
          /\ intervalRef' = intervalRef
          /\ loading' = loading
          /\ fx'.onScanError = 1
          /\ mounted => error' \in {MsgBadFormat, MsgMissingInfo}]_vars

\* A text without indexNumber was decoded while the scanner was sampling
C5_Witness ==
  /\ comp = "webcam"
  /\ fx.act = "onload" /\ fx.input = TxtNameOnly
  /\ scanning /\ SamplingArmed /\ error = MsgMissingInfo

\* C6: every unresolved markAttendance call of any scanner component
\* carries a parsed object with a non-empty indexNumber and no rawData.
C6_SubmittedPayloadHasIndex ==
  \A c \in BagToSet(inflight) :
    /\ c.req.qrCodeData.kind = "object"
    /\ Truthy(c.req.qrCodeData.indexNumber)
    /\ c.req.qrCodeData.rawData = Undefined

\* DigitalQRScanner submitted the payload it built from a URL
C6_Witness ==
  /\ comp = "digital"
  /\ fx.act = "decode" /\ fx.input = TxtUrl /\ fx.issued = 1
  /\ inflight # EmptyBag

\* C7: in the webcam scanner no sampling interval is armed while a
\* markAttendance call is unresolved.
C7_NoSamplingWhileSubmitting ==
  (comp = "webcam" /\ inflight # EmptyBag) => timers = {}

\* C8: in the webcam scanner at most one captured frame is waiting for its
\* image.onload at any time.
C8_TicksSequential ==
  comp = "webcam" => pending <= 1

\* C9: in the webcam scanner, when the 3-second cooldown of a failed
\* submission has run (component mounted, camera permission granted), error
\* is cleared, scanning is true and a sampling interval is armed.
C9_CooldownRestartsSampling ==
  (comp = "webcam" /\ mounted /\ cameraPermission = "true" /\ fx.act = "cooldown")
    => (error = Null /\ scanning /\ SamplingArmed)

\* C10: in the webcam scanner a submission rejected with HTTP 409 sets error
\* to the already-marked message and one rejected with HTTP 404 to the
\* student-not-found message, whatever message the response body carries.
C10_StatusDecidesMessage ==
  (comp = "webcam" /\ mounted /\ fx.act = "submitFailed")
    => /\ fx.input = "409" => error = MsgAlreadyMarked
       /\ fx.input = "404" => error = MsgNotFound

\* A 409 whose body carried its own message was classified
C10_Witness ==
  /\ comp = "webcam" /\ mounted
  /\ fx.act = "submitFailed" /\ fx.input = "409" /\ fx.body = MsgBody
  /\ error = MsgAlreadyMarked

\* C11: whenever a scanner component calls onScanSuccess for a response
\* that reports an attendance status, the outcome's status is the reported
\* one.
C11_OutcomeStatusIsReported ==
  (fx.act = "submitOk" /\ fx.onScanSuccess = 1 /\ fx.reported # Undefined)
    => fx.outcomeStatus = fx.reported

\* C13: once the webcam scanner has unmounted no interval timer is armed,
\* so no sampling tick can run.
C13_NoTimerAfterUnmount ==
  (comp = "webcam" /\ ~mounted) => timers = {}

\* C14: when a markAttendance call settles after its scanner component has
\* unmounted, neither onScanSuccess nor onScanError is called for it.
C14_ResultDiscardedAfterUnmount ==
  (~mounted /\ fx.act \in {"submitOk", "submitFailed"})
    => (fx.onScanSuccess = 0 /\ fx.onScanError = 0)

\* C15: in the webcam scanner, while cameraPermission is false a handler
\* calls getUserMedia only when the operator pressed a button (Try Again, or
\* Scan Again): no timer, cooldown or effect requests the camera on its own.
C15_NoSilentRetry ==
  [][(comp = "webcam" /\ cameraPermission = "false" /\ fx'.getUserMedia = 1)
       => fx'.act \in {"tryAgain", "scanAgain"}]_vars

\* C16: in the webcam scanner, the denied state that an enumeration with
\* zero video inputs puts the scanner in (cameraPermission false, error
\* set) is not undone by the event that follows it, in particular not by
\* the completion of the permission check started together with it.
C16_ZeroCamerasEndsDenied ==
  [][(comp = "webcam" /\ mounted' /\ fx.act = "enumResolve" /\ fx.input = "0")
       => (cameraPermission' = "false" /\ error' # Null)]_vars

\* Nothing of useQRScanner is active: no stream, no frame request, not scanning
HookIdle == streamRef = 0 /\ animationRef = 0 /\ ~metaPending /\ ~scanning

\* Nothing of the webcam scanner's sampling is active
WebcamIdle == intervalRef = 0 /\ ~scanning

\* C17: release is idempotent. In a state where nothing is active, and in
\* the state a release has just produced, stopScanner (useQRScanner) and
\* stopScanning (webcam scanner) return the state they were called in.
C17_ReleaseIdempotent ==
  /\ (comp = "hook" /\ (HookIdle \/ fx.stopped))
       => StoppedScanner(HookState) = HookState
  /\ (comp = "webcam" /\ (WebcamIdle \/ fx.stopped))
       => StoppedScanning(ScanState) = ScanState

\* The host has just called stopScanner on a mounted hook and nothing is
\* active any more
C17_Witness ==
  /\ comp = "hook" /\ mounted
  /\ fx.act = "stopScanner" /\ fx.stopped /\ released
  /\ HookIdle /\ streams = {}

\* The class of a failed submission, by the HTTP status of the response (0
\* when no response was received)
FailureClass(status) ==
  CASE status = 0 -> "network"
    [] status = 404 -> "not-found"
    [] status = 409 -> "conflict"
    [] status \in {400, 422} -> "validation"
    [] OTHER -> "server"

\* The replies that make markAttendance reject
Rejections == {reply \in Replies : ~ApiSettle(reply).ok}

\* The message DigitalQRScanner shows for a failed submission
DigitalMessage(r) == OrElse(CaughtError(r).message, MsgProcessFailed)

\* C18: the message a failed submission leaves in the error state of the
\* webcam scanner (error) or of DigitalQRScanner (apiError) is produced by
\* no failure of another class.
C18_DistinctMessagePerClass ==
  (mounted /\ fx.act = "submitFailed" /\ fx.input # "200")
    => \A reply \in Rejections :
         ToString(reply.status) # fx.input
           => \/ \E other \in Rejections :
                   /\ ToString(other.status) = fx.input
                   /\ FailureClass(other.status) = FailureClass(reply.status)
              \/ (comp = "webcam" => ErrorMessage(CaughtError(ApiSettle(reply))) # error)
                 /\ (comp = "digital" => DigitalMessage(ApiSettle(reply)) # apiError)

\* C19: in every scanner component a decoded payload with an index number
\* and no name goes on to the markAttendance call.
C19_IndexOnlyIsSubmitted ==
  (fx.act \in {"onload", "decode", "handleScan"} /\ fx.input = TxtIndexOnly)
    => fx.issued = 1

\* Decoded texts that carry the identifier S1: as JSON, as a URL or query
\* string with indexNumber, or as the bare identifier
IdentifierTexts == {TxtIndexOnly, TxtFull, TxtUrl, TxtQuery, TxtBare}

\* C20: DigitalQRScanner submits every decoded text that carries an
\* identifier (JSON, URL query string or bare identifier), with that
\* identifier as indexNumber.
C20_EveryIdentifierIsSubmitted ==
  (comp = "digital" /\ fx.act = "decode" /\ fx.input \in IdentifierTexts)
    => /\ fx.issued = 1
       /\ \E c \in BagToSet(inflight) : c.req.qrCodeData.indexNumber = "S1"

\* C21: a scanner does not stay in the submitting state forever: whenever a
\* mounted scanner is loading with a markAttendance call unresolved, loading
\* is later false (or the scanner has unmounted), even if the remote side
\* answers neither the health probe nor the request.
C21_SubmittingEnds ==
  (mounted /\ loading /\ inflight # EmptyBag) ~> (~loading \/ ~mounted)

\* A call that got no response was rejected and the webcam scanner left the
\* submitting state with its failure message
C21_Witness ==
  /\ comp = "webcam" /\ mounted
  /\ fx.act = "submitFailed" /\ fx.input = "0" /\ fx.onScanError = 1
  /\ ~loading /\ inflight = EmptyBag /\ error = MsgFailedToMark

\* C22: in the react-qr-reader scanner, after handleScan rejected a decoded
\* text (not JSON, or required fields missing) <QrReader/> is still rendered
\* and keeps its stream: the session goes on without the operator.
C22_DecodeErrorKeepsReader ==
  (comp = "rqr" /\ mounted /\ fx.act = "handleScan" /\ fx.issued = 0)
    => /\ ReaderRendered(mounted, loading, error, cameraPermission, scannedData, scanning)
       /\ webcamMedia = "live"

\* C23: a sampling tick that finds no frame available (the webcam scanner's
\* tick without a screenshot, processFrame of useQRScanner while the hook is
\* scanning and the video is not ready) sets no error, calls no callback and
\* leaves a later tick scheduled.
C23_NotReadyTickIsSkipped ==
  [][/\ (comp = "webcam" /\ fx'.act = "tick" /\ fx'.input = NotReady)
        => /\ error' = error
           /\ fx'.onScanError = 0 /\ fx'.onScanSuccess = 0
           /\ timers' = timers /\ timers' # {}
     /\ (comp = "hook" /\ mounted /\ scanning
           /\ fx'.act = "processFrame" /\ fx'.input = NotReady)
        => /\ error' = error
           /\ fx'.onScanError = 0 /\ fx'.onScanSuccess = 0
           /\ animationRef' # 0 /\ animationRef' \in rafs'
    ]_vars

\* C24: when a submission of a scanner component settles, exactly one host
\* callback is called, exactly once: onScanSuccess for a response with data,
\* onScanError for everything else.
C24_ExactlyOneCallback ==
  fx.act \in {"submitOk", "submitFailed"}
    => /\ fx.onScanSuccess + fx.onScanError = 1
       /\ fx.onScanSuccess = 1 <=> fx.act = "submitOk"

\* DigitalQRScanner got a 200 response without a body and reported it through
\* onScanError alone
C24_Witness ==
  /\ comp = "digital"
  /\ fx.act = "submitFailed" /\ fx.input = "200"
  /\ fx.onScanError = 1 /\ fx.onScanSuccess = 0
  /\ apiError = MsgInvalidResponse

\* The page numbers of a rendered list, in the order listed
Listed(list) == SelectSeq(list, LAMBDA p : p # Dots)

\* C25: for totalPages >= 2 and currentPage in 1..totalPages the list of
\* getPageNumbers contains page 1, the last page, currentPage and its
\* neighbours in range; its page numbers increase strictly; and a '...'
\* stands exactly between two listed numbers that are not consecutive.
C25_PageList ==
  (comp = "pagination" /\ totalPages >= 2)
    => LET nums == Listed(pages)
           has(p) == \E i \in 1..Len(pages) : pages[i] = p
       IN /\ has(1) /\ has(totalPages) /\ has(currentPage)
          /\ currentPage - 1 >= 1 => has(currentPage - 1)
          /\ currentPage + 1 <= totalPages => has(currentPage + 1)
          /\ \A i \in 1..Len(nums) : nums[i] \in 1..totalPages
          /\ \A i \in 1..(Len(nums) - 1) : nums[i] < nums[i + 1]
          /\ \A i \in 1..Len(pages) :
               pages[i] = Dots
                 => /\ 1 < i /\ i < Len(pages)
                    /\ pages[i - 1] # Dots /\ pages[i + 1] # Dots
                    /\ pages[i + 1] > pages[i - 1] + 1
          /\ \A i \in 1..(Len(pages) - 1) :
               (pages[i] # Dots /\ pages[i + 1] # Dots) => pages[i + 1] = pages[i] + 1

\* A page in the middle of a long list was opened by a click: dots on both sides
C25_Witness ==
  /\ comp = "pagination" /\ totalPages = 8 /\ currentPage = 4
  /\ fx.act = "pageChange" /\ fx.input = "4"
  /\ pages = <<1, Dots, 3, 4, 5, Dots, 8>>

\* C26: when a handleSubmit call of useFormSubmit settles, loading is false;
\* after submitFn resolved onSuccess was called once with the result, onError
\* not at all, and nothing was thrown; after submitFn rejected error holds a
\* non-empty message, onError was called once with the error, onSuccess not
\* at all, and the error submitFn rejected with was rethrown.
C26_HandleSubmitSettles ==
  /\ (comp = "form" /\ fx.act = "formResolved")
       => /\ ~loading
          /\ fx.onSuccess = 1 /\ fx.arg = fx.input /\ fx.onError = 0
          /\ fx.thrown = Undefined
  /\ (comp = "form" /\ fx.act = "formRejected")
       => /\ ~loading
          /\ Truthy(error)
          /\ fx.onError = 1 /\ fx.arg = fx.input /\ fx.onSuccess = 0
          /\ fx.thrown = fx.input

\* A 400 whose body carries an empty message was rejected while a second
\* call was still waiting
C26_Witness ==
  /\ comp = "form" /\ fx.act = "formRejected"
  /\ fx.input = FormErrorId([hasResponse |-> TRUE, status |-> 400, bodyMessage |-> ""])
  /\ error = MsgFormCheck /\ ~loading /\ submits = 1

\* C27: when authService.logout has settled, fulfilled or rejected, neither
\* storage holds a token and localStorage holds no user record.
C27_LogoutClearsSession ==
  (comp = "auth" /\ fx.act \in {"logoutOk", "logoutFailed"})
    => storage \cap {"localStorage.token", "sessionStorage.token", "localStorage.user"} = {}

\* A logout that never reached the server (the health probe failed) was
\* rejected and the session is cleared; another logout is still waiting
C27_Witness ==
  /\ comp = "auth"
  /\ fx.act = "logoutFailed" /\ fx.input = "0" /\ fx.thrown = "error"
  /\ storage = {}
  /\ BagIn("health", logouts)

\* C28: in the webcam scanner at most one interval is armed, and an armed
\* interval is the one intervalRef holds.
C28_OneIntervalInRef ==
  comp = "webcam" => (timers = {} \/ timers = {intervalRef})

\* C29: in useQRScanner, while the hook is scanning every processFrame run
\* by a scheduled animation frame keeps the loop going: on a frame without a
\* code (or a video that is not ready) it schedules the next frame, on a
\* frame with a code it sets scannedData and stops the scanner.
C29_FrameLoopLive ==
  [][(comp = "hook" /\ mounted /\ scanning /\ fx'.act = "processFrame")
       => IF fx'.input \in {NotReady, NoSymbol}
            THEN animationRef' # 0 /\ animationRef' \in rafs'
            ELSE scannedData' # Null /\ ~scanning' /\ streamRef' = 0]_vars

\* C30: ProtectedRoute returns its children exactly when the auth state has
\* finished loading, the user is authenticated and, on an adminOnly route,
\* is an admin; in every other state it returns the spinner or a redirect.
C30_ChildrenOnlyWhenAllowed ==
  comp = "route"
    => /\ rendered \in {"children", "spinner", "Navigate /login", "Navigate /"}
       /\ rendered = "children"
            <=> (~auth.loading /\ auth.isAuthenticated /\ (adminOnly => auth.isAdmin))

\* An authenticated user who is no admin was sent away from an adminOnly route
C30_Witness ==
  /\ comp = "route" /\ adminOnly /\ fx.act = "authChange"
  /\ auth = [loading |-> FALSE, isAuthenticated |-> TRUE, isAdmin |-> FALSE]
  /\ rendered = "Navigate /"

====
